---- MODULE Spec2Model ----
(***************************************************************************)
(* Model of the movie catalogue of src/main.py: the Movie record and its   *)
(* from_dict constructor, the persisted movies.json file, the in-memory    *)
(* list MovieManagerApp.movies, the query behind refresh_movies, and the   *)
(* handlers that mutate the list (toggle_flag, delete_movie, the form's    *)
(* save).                                                                  *)
(*                                                                         *)
(* Text is a sequence of code points, so that str.strip, str.lower, the    *)
(* "in" substring test and string comparison are computed, not assumed.    *)
(* A float is an integer number of tenths (rating 7.5 is 75); NaN and the  *)
(* infinities are not among the values.                                    *)
(*                                                                         *)
(* A Movie object is a record with an id, its identity; the dataclass      *)
(* __eq__ compares the eleven fields and not the id.                       *)
(*                                                                         *)
(* The popup of open_movie_form is modal: while it is open the cards and   *)
(* the widgets of the root view receive no events.  An exception that      *)
(* leaves a handler (the OSError of _save_movies) ends the process, as     *)
(* Kivy's default exception handling does; the next build() starts from    *)
(* the file.                                                               *)
(*                                                                         *)
(* A TMDB lookup is a worker thread inside requests.get and then a callback *)
(* in the Clock, which runs callbacks on the interactive thread in the     *)
(* order they were scheduled.  The closures of a lookup keep the widgets   *)
(* of the popup it was started from: after popup.dismiss() their writes    *)
(* reach widgets that are no longer on screen.  The worker threads are     *)
(* daemon threads and end with the process; an exception that leaves a     *)
(* Clock callback ends the process like one that leaves a handler.         *)
(*                                                                         *)
(* Spec is the application with its handlers, the search box and the       *)
(* spinners left at their defaults; SpecLoad starts it on many files;      *)
(* SpecQuery works the search box and the spinners on loaded lists;        *)
(* SpecLookup runs lookups between the handlers of the form.               *)
(***************************************************************************)
EXTENDS Integers, Sequences, FiniteSets, Bags, TLC

VARIABLES
    movies,         \* self.movies: the list of Movie objects
    file,           \* the content of data_file (movies.json) on disk
    running,        \* build() has run and no handler has raised since
    search_input,   \* root_view.ids.search_input.text
    filter_spinner, \* root_view.ids.filter_spinner.text
    sort_spinner,   \* root_view.ids.sort_spinner.text
    cards,          \* the Movie objects of the cards in movie_grid, in order
    form,           \* the widgets of the open_movie_form popup
    last,           \* the handler that ran last, its arguments and outcome
    tmdb_api_key,   \* self.tmdb_api_key: the key that build() finds in
                    \* TMDB_API_KEY
    lookups         \* the TMDB lookups with a live worker thread or a
                    \* scheduled callback that the Clock has not run yet

vars == <<movies, file, running, search_input, filter_spinner,
          sort_spinner, cards, form, last, tmdb_api_key, lookups>>

-----------------------------------------------------------------------------
(* Bounds *)

\* New records can be added through the form while the list is shorter.
MaxMovies == 1

\* The clock shows the times 0..MaxClock.
MaxClock == 1

\* fetch_tmdb starts a lookup while fewer than MaxLookups have a worker
\* thread running or a callback waiting in the Clock.
MaxLookups == 2

-----------------------------------------------------------------------------
(* Text *)

Max(a, b) == IF a >= b THEN a ELSE b

Min(a, b) == IF a <= b THEN a ELSE b

\* str.isspace for the characters used: space, tab, newline
IsSpace(c) == c \in {32, 9, 10}

RECURSIVE LStrip(_)
LStrip(s) ==
    IF s = <<>> THEN <<>>
    ELSE IF IsSpace(Head(s)) THEN LStrip(Tail(s)) ELSE s

RECURSIVE RStrip(_)
RStrip(s) ==
    IF s = <<>> THEN <<>>
    ELSE IF IsSpace(s[Len(s)]) THEN RStrip(SubSeq(s, 1, Len(s) - 1)) ELSE s

\* str.strip()
Strip(s) == RStrip(LStrip(s))

\* str.lower() on ASCII
LowerChar(c) == IF c \in 65..90 THEN c + 32 ELSE c

Lower(s) == [i \in 1..Len(s) |-> LowerChar(s[i])]

\* sub in s
Contains(sub, s) ==
    \E i \in 0..(Len(s) - Len(sub)) : SubSeq(s, i + 1, i + Len(sub)) = sub

\* a < b for str: lexicographic by code point
RECURSIVE TextLess(_, _)
TextLess(a, b) ==
    IF b = <<>> THEN FALSE
    ELSE IF a = <<>> THEN TRUE
    ELSE IF Head(a) # Head(b) THEN Head(a) < Head(b)
    ELSE TextLess(Tail(a), Tail(b))

IsDigit(c) == c \in 48..57

\* the decimal digits of a natural number
RECURSIVE Digits(_)
Digits(n) ==
    IF n < 10 THEN <<48 + n>> ELSE Digits(n \div 10) \o <<48 + (n % 10)>>

\* the value of a string of digits (0 for the empty string)
RECURSIVE DigitsVal(_)
DigitsVal(s) ==
    IF s = <<>> THEN 0
    ELSE 10 * DigitsVal(SubSeq(s, 1, Len(s) - 1)) + (s[Len(s)] - 48)

\* str(x) and f"{x:.1f}" of a float x with one decimal, given in tenths
FormatFloat(r) ==
    LET a == IF r < 0 THEN -r ELSE r
    IN  (IF r < 0 THEN <<45>> ELSE <<>>) \o Digits(a \div 10)
            \o <<46>> \o <<48 + (a % 10)>>

\* str(x) of an int
FormatInt(n) ==
    IF n < 0 THEN <<45>> \o Digits(-n) ELSE Digits(n)

\* float(s) of a str: surrounding whitespace and a sign are accepted, then
\* digits with at most one point and at least one digit; anything else is
\* a ValueError.  The value is in tenths.
ParseFloat(s) ==
    LET t    == Strip(s)
        neg  == t # <<>> /\ Head(t) = 45
        sgn  == t # <<>> /\ Head(t) \in {43, 45}
        body == IF sgn THEN Tail(t) ELSE t
        dots == {i \in 1..Len(body) : body[i] = 46}
        good == /\ \A i \in 1..Len(body) : IsDigit(body[i]) \/ body[i] = 46
                /\ Cardinality(dots) <= 1
                /\ \E i \in 1..Len(body) : IsDigit(body[i])
        p    == IF dots = {} THEN Len(body) + 1 ELSE CHOOSE i \in dots : TRUE
        ip   == SubSeq(body, 1, p - 1)
        fp   == SubSeq(body, p + 1, Len(body))
        mag  == 10 * DigitsVal(ip) + (IF fp = <<>> THEN 0 ELSE fp[1] - 48)
    IN  IF good THEN [ok |-> TRUE, v |-> IF neg THEN -mag ELSE mag]
        ELSE [ok |-> FALSE, v |-> 0]

-----------------------------------------------------------------------------
(* JSON values, as json.load returns them and json.dump writes them *)

Empty == <<>>

JMissing  == [t |-> "missing", s |-> Empty, n |-> 0, b |-> FALSE]
JNull     == [t |-> "null", s |-> Empty, n |-> 0, b |-> FALSE]
JBool(b)  == [t |-> "bool", s |-> Empty, n |-> 0, b |-> b]
JInt(n)   == [t |-> "int", s |-> Empty, n |-> n, b |-> FALSE]
JFloat(n) == [t |-> "float", s |-> Empty, n |-> n, b |-> FALSE]
JStr(s)   == [t |-> "str", s |-> s, n |-> 0, b |-> FALSE]
\* a list of n ones
JList(n)  == [t |-> "list", s |-> Empty, n |-> n, b |-> FALSE]

\* payload.get(key, default)
Get(payload, key, default) ==
    IF payload[key].t = "missing" THEN default ELSE payload[key]

\* bool(v)
Truthy(v) ==
    CASE v.t = "null"  -> FALSE
      [] v.t = "bool"  -> v.b
      [] v.t = "int"   -> v.n # 0
      [] v.t = "float" -> v.n # 0
      [] v.t = "str"   -> v.s # Empty
      [] v.t = "list"  -> v.n # 0
      [] OTHER         -> FALSE

\* str(v)
PyStr(v) ==
    CASE v.t = "null"  -> <<78, 111, 110, 101>>
      [] v.t = "bool"  -> IF v.b THEN <<84, 114, 117, 101>>
                          ELSE <<70, 97, 108, 115, 101>>
      [] v.t = "int"   -> FormatInt(v.n)
      [] v.t = "float" -> FormatFloat(v.n)
      [] v.t = "str"   -> v.s
      [] v.t = "list"  -> IF v.n = 0 THEN <<91, 93>> ELSE <<91, 49, 93>>
      [] OTHER         -> Empty

\* float(v): the value in tenths, or the exception raised
PyFloat(v) ==
    CASE v.t = "int"   -> [exc |-> "none", v |-> 10 * v.n]
      [] v.t = "float" -> [exc |-> "none", v |-> v.n]
      [] v.t = "bool"  -> [exc |-> "none", v |-> IF v.b THEN 10 ELSE 0]
      [] v.t = "str"   -> IF ParseFloat(v.s).ok
                          THEN [exc |-> "none", v |-> ParseFloat(v.s).v]
                          ELSE [exc |-> "ValueError", v |-> 0]
      [] OTHER         -> [exc |-> "TypeError", v |-> 0]

-----------------------------------------------------------------------------
(* Movie *)

\* datetime.utcnow().isoformat(): a text without surrounding whitespace
\* that differs whenever the clock differs
isoformat(t) == <<84>> \o Digits(t)

\* __post_init__ with the test of created_at left out: every construction
\* stamps the record
__post_init__always(m, t) == [m EXCEPT !.created_at = isoformat(t)]

\* Movie.__post_init__ applied to the constructor's arguments
__post_init__(m, t) ==
    IF m.created_at = Empty THEN [m EXCEPT !.created_at = isoformat(t)] ELSE m

\* Movie(title=title): the dataclass defaults, then __post_init__.
\* id is the identity of the object, not a field.
Movie(id, title, t) ==
    __post_init__(
        [id |-> id, title |-> title, year |-> Empty, rating |-> 0,
         poster_url |-> Empty, watched |-> FALSE, favorite |-> FALSE,
         watchlist |-> TRUE, trailer_url |-> Empty, local_file |-> Empty,
         notes |-> Empty, created_at |-> Empty], t)

\* m1 == m2 of the dataclass: the eleven fields, compared as a tuple
FieldsOf(m) ==
    <<m.title, m.year, m.rating, m.poster_url, m.watched, m.favorite,
      m.watchlist, m.trailer_url, m.local_file, m.notes, m.created_at>>

MovieEq(m1, m2) == FieldsOf(m1) = FieldsOf(m2)

\* str(payload.get(key, "")).strip()
TextField(payload, key) == Strip(PyStr(Get(payload, key, JStr(Empty))))

\* payload.get("rating", 0) or 0
RatingArg(payload) ==
    IF Truthy(Get(payload, "rating", JInt(0)))
    THEN Get(payload, "rating", JInt(0)) ELSE JInt(0)

\* Movie.from_dict(payload) for a dict payload: the record, or the
\* exception that float() raises
from_dict(payload, id, t) ==
    LET r == PyFloat(RatingArg(payload))
    IN  [exc |-> r.exc,
         m   |-> __post_init__(
                    [id |-> id,
                     title |-> TextField(payload, "title"),
                     year |-> TextField(payload, "year"),
                     rating |-> r.v,
                     poster_url |-> TextField(payload, "poster_url"),
                     watched |-> Truthy(Get(payload, "watched", JBool(FALSE))),
                     favorite |-> Truthy(Get(payload, "favorite", JBool(FALSE))),
                     watchlist |-> Truthy(Get(payload, "watchlist", JBool(TRUE))),
                     trailer_url |-> TextField(payload, "trailer_url"),
                     local_file |-> TextField(payload, "local_file"),
                     notes |-> TextField(payload, "notes"),
                     created_at |-> TextField(payload, "created_at")], t)]

\* asdict(m): every field under its own name, as json.dump writes it
asdict(m) ==
    [dict |-> TRUE,
     title |-> JStr(m.title), year |-> JStr(m.year),
     rating |-> JFloat(m.rating), poster_url |-> JStr(m.poster_url),
     watched |-> JBool(m.watched), favorite |-> JBool(m.favorite),
     watchlist |-> JBool(m.watchlist), trailer_url |-> JStr(m.trailer_url),
     local_file |-> JStr(m.local_file), notes |-> JStr(m.notes),
     created_at |-> JStr(m.created_at)]

-----------------------------------------------------------------------------
(* The movies file *)

\* kind: "absent" (no file), "invalid" (json.load raises), "value" (valid
\* JSON that is not a list), "list" (items are its elements)
NoFile      == [kind |-> "absent", items |-> <<>>]
InvalidFile == [kind |-> "invalid", items |-> <<>>]
ValueFile   == [kind |-> "value", items |-> <<>>]
ListFile(items) == [kind |-> "list", items |-> items]

\* the elements of data that are dicts, in order
RECURSIVE Dicts(_)
Dicts(items) ==
    IF items = <<>> THEN <<>>
    ELSE IF Head(items).dict THEN <<Head(items)>> \o Dicts(Tail(items))
    ELSE Dicts(Tail(items))

\* _load_movies: the list returned and the exception swallowed on the way.
\* Each record is a new object; all of them read the clock at t.
_load_movies(f, t) ==
    LET ds   == Dicts(f.items)
        recs == [i \in 1..Len(ds) |-> from_dict(ds[i], i, t)]
        bad  == {i \in 1..Len(ds) : recs[i].exc # "none"}
    IN  CASE f.kind = "absent"  -> [exc |-> "none", movies |-> <<>>]
          [] f.kind = "invalid" -> [exc |-> "JSONDecodeError", movies |-> <<>>]
          [] f.kind = "value"   -> [exc |-> "none", movies |-> <<>>]
          [] OTHER ->
                IF bad = {}
                THEN [exc |-> "none", movies |-> [i \in 1..Len(ds) |-> recs[i].m]]
                ELSE [exc |-> recs[CHOOSE i \in bad : \A j \in bad : i <= j].exc,
                      movies |-> <<>>]

\* what _save_movies writes when it succeeds
Dumped(ms) == ListFile([i \in 1..Len(ms) |-> asdict(ms[i])])

-----------------------------------------------------------------------------
(* The query behind the movie list *)

\* the search with the title compared as it is written
MatchesCaseSensitive(m, search) ==
    Contains(search, m.title) \/ Contains(search, Lower(m.notes))

\* search in m.title.lower() or search in m.notes.lower()
Matches(m, search) ==
    Contains(search, Lower(m.title)) \/ Contains(search, Lower(m.notes))

\* the flag that filter_spinner.text names
PassesFilter(m, filter_value) ==
    CASE filter_value = "Watched"   -> m.watched
      [] filter_value = "Favorite"  -> m.favorite
      [] filter_value = "Watchlist" -> m.watchlist
      [] OTHER                      -> TRUE

\* m.year or "0"
YearKey(m) == IF m.year = Empty THEN <<48>> ELSE m.year

\* key(a) < key(b) for the key function of sort_value
KeyLess(sort_value, a, b) ==
    CASE sort_value = "Title"  -> TextLess(Lower(a.title), Lower(b.title))
      [] sort_value = "Year"   -> TextLess(YearKey(a), YearKey(b))
      [] sort_value = "Rating" -> a.rating < b.rating
      [] OTHER                 -> FALSE

\* reverse=True for Year and Rating
Reverse(sort_value) == sort_value \in {"Year", "Rating"}

\* x has to come before y, which precedes it in the input
Before(sort_value, x, y) ==
    IF Reverse(sort_value) THEN KeyLess(sort_value, y, x)
    ELSE KeyLess(sort_value, x, y)

\* x put into the sorted list acc, behind every element it does not
\* have to come before
RECURSIVE Insert(_, _, _)
Insert(sort_value, acc, x) ==
    IF acc = <<>> THEN <<x>>
    ELSE IF Before(sort_value, x, Head(acc)) THEN <<x>> \o acc
    ELSE <<Head(acc)>> \o Insert(sort_value, Tail(acc), x)

\* sorted(items, key=..., reverse=...): a new list, stable
RECURSIVE sorted(_, _)
sorted(sort_value, items) ==
    IF items = <<>> THEN <<>>
    ELSE Insert(sort_value,
                sorted(sort_value, SubSeq(items, 1, Len(items) - 1)),
                items[Len(items)])

\* _filtered_movies for the three widget texts
_filtered_movies(ms, search_text, filter_value, sort_value) ==
    LET search   == Lower(Strip(search_text))
        Hit(m)   == Matches(m, search)
        Pass(m)  == PassesFilter(m, filter_value)
        found    == IF search # Empty THEN SelectSeq(ms, Hit) ELSE ms
        filtered == SelectSeq(found, Pass)
    IN  IF sort_value \in {"Title", "Year", "Rating"}
        THEN sorted(sort_value, filtered) ELSE filtered

\* refresh_movies: one card per record of _filtered_movies, each holding
\* its Movie object
refresh_movies(ms, search_text, filter_value, sort_value) ==
    LET shown == _filtered_movies(ms, search_text, filter_value, sort_value)
    IN  [i \in 1..Len(shown) |-> shown[i].id]

-----------------------------------------------------------------------------
(* Objects *)

Ids(ms) == {ms[i].id : i \in 1..Len(ms)}

\* the position in ms of the object h
IndexOf(ms, h) == CHOOSE i \in 1..Len(ms) : ms[i].id = h

\* the object h
Obj(ms, h) == ms[IndexOf(ms, h)]

\* the identity of a newly allocated object
FreshId(ms) ==
    CHOOSE i \in 1..(Len(ms) + 1) :
        i \notin Ids(ms) /\ \A j \in 1..(i - 1) : j \in Ids(ms)

\* ms without its element at position i
RemoveAt(ms, i) == SubSeq(ms, 1, i - 1) \o SubSeq(ms, i + 1, Len(ms))

\* x == y as list.__contains__ and list.remove test it: the same object,
\* or equal by the dataclass __eq__
SameOrEqual(x, y) == x.id = y.id \/ MovieEq(x, y)

\* movie in self.movies
InList(ms, movie) == \E i \in 1..Len(ms) : SameOrEqual(ms[i], movie)

\* self.movies.remove(movie): the first matching element goes
ListRemove(ms, movie) ==
    RemoveAt(ms, CHOOSE i \in 1..Len(ms) :
                    /\ SameOrEqual(ms[i], movie)
                    /\ \A j \in 1..(i - 1) : ~SameOrEqual(ms[j], movie))

-----------------------------------------------------------------------------
(* Inputs *)

\* the payload {}
NoKeys ==
    [dict |-> TRUE, title |-> JMissing, year |-> JMissing,
     rating |-> JMissing, poster_url |-> JMissing, watched |-> JMissing,
     favorite |-> JMissing, watchlist |-> JMissing, trailer_url |-> JMissing,
     local_file |-> JMissing, notes |-> JMissing, created_at |-> JMissing]

\* an element of the file that is not a dict (a number, a string, null)
NotADict == [NoKeys EXCEPT !.dict = FALSE]

\* {"title": "a", "created_at": "T0"}
ElemA == [NoKeys EXCEPT !.title = JStr(<<97>>), !.created_at = JStr(<<84, 48>>)]

\* {"title": " ", "rating": 11}
ElemBlank == [NoKeys EXCEPT !.title = JStr(<<32>>), !.rating = JInt(11)]

\* {"title": "B", "rating": "abc"}
ElemBadRating == [NoKeys EXCEPT !.title = JStr(<<66>>),
                                !.rating = JStr(<<97, 98, 99>>)]

\* the files the application is started on
InitFiles ==
    {NoFile,
     ListFile(<<ElemA, ElemA>>),
     ListFile(<<ElemBlank>>)}

\* {"title": "  Ab ", "year": 2001, "rating": "7.5", "watched": 1,
\*  "watchlist": null, "notes": " n", "created_at": " T0 "}
ElemCoerced ==
    [NoKeys EXCEPT !.title = JStr(<<32, 32, 65, 98, 32>>), !.year = JInt(2001),
                   !.rating = JStr(<<55, 46, 53>>), !.watched = JInt(1),
                   !.watchlist = JNull, !.notes = JStr(<<32, 110>>),
                   !.created_at = JStr(<<32, 84, 48, 32>>)]

\* {"title": "c", "rating": [1], "favorite": true}
ElemListRating == [NoKeys EXCEPT !.title = JStr(<<99>>), !.rating = JList(1),
                                 !.favorite = JBool(TRUE)]

\* {"title": "d", "rating": -2.5, "watchlist": false, "created_at": ""}
ElemNegative == [NoKeys EXCEPT !.title = JStr(<<100>>), !.rating = JFloat(-25),
                               !.watchlist = JBool(FALSE),
                               !.created_at = JStr(Empty)]

LoadElems == {NotADict, NoKeys, ElemA, ElemBlank, ElemBadRating, ElemCoerced,
              ElemListRating, ElemNegative}

\* the files that load is tried on: no file, an unparsable one, one whose
\* top level is not a list, and every list of one or two of the elements
LoadFiles ==
    {NoFile, InvalidFile, ValueFile}
        \cup {ListFile(<<e>>) : e \in LoadElems}
        \cup {ListFile(<<e1, e2>>) : e1 \in LoadElems, e2 \in LoadElems}

\* {"title": "b", "rating": 5, "watched": true, "watchlist": false}
ElemQ1 == [NoKeys EXCEPT !.title = JStr(<<98>>), !.rating = JInt(5),
                         !.watched = JBool(TRUE), !.watchlist = JBool(FALSE),
                         !.created_at = JStr(<<84, 48>>)]

\* {"title": "a", "year": "1", "rating": 9, "favorite": true}
ElemQ2 == [NoKeys EXCEPT !.title = JStr(<<97>>), !.year = JStr(<<49>>),
                         !.rating = JInt(9), !.favorite = JBool(TRUE),
                         !.created_at = JStr(<<84, 48>>)]

\* {"title": "B", "year": "1", "rating": 5, "notes": "A x"}
ElemQ3 == [NoKeys EXCEPT !.title = JStr(<<66>>), !.year = JStr(<<49>>),
                         !.rating = JInt(5), !.notes = JStr(<<65, 32, 120>>),
                         !.created_at = JStr(<<84, 48>>)]

\* {"title": "a b", "year": "-1", "rating": 9.5, "watched": true}
ElemQ4 == [NoKeys EXCEPT !.title = JStr(<<97, 32, 98>>),
                         !.year = JStr(<<45, 49>>), !.rating = JFloat(95),
                         !.watched = JBool(TRUE),
                         !.created_at = JStr(<<84, 48>>)]

\* the files the query is tried on
QueryFiles ==
    {ListFile(<<ElemQ1, ElemQ2, ElemQ3>>),
     ListFile(<<ElemQ3, ElemQ4, ElemQ1>>),
     ListFile(<<ElemQ4, ElemQ2, ElemQ1, ElemQ3>>)}

\* what the user types into the search box
SearchTexts == {Empty, <<98>>, <<32, 98>>, <<65, 32>>, <<32>>, <<120, 121>>}

\* what the user types into the form: the text inputs title, year, rating
\* and notes, and the three check boxes
Drafts ==
    {[title |-> <<32, 66, 32>>, year |-> Empty, rating |-> <<49, 49>>,
      notes |-> <<120, 32>>, watched |-> TRUE, favorite |-> FALSE,
      watchlist |-> TRUE],
     [title |-> <<97>>, year |-> <<49>>, rating |-> <<120>>,
      notes |-> Empty, watched |-> FALSE, favorite |-> FALSE,
      watchlist |-> TRUE]}

\* the values of TMDB_API_KEY in the environment of the process
ApiKeys == {Empty, <<107>>}

\* what the user types in the form before a lookup: the title "a b"
LookupDrafts ==
    {[title |-> <<97, 32, 98>>, year |-> Empty, rating |-> Empty,
      notes |-> Empty, watched |-> FALSE, favorite |-> FALSE,
      watchlist |-> TRUE]}

\* a movie of the TMDB search results without any of the keys that worker()
\* reads
NoTmdbKeys ==
    [poster_path |-> JMissing, release_date |-> JMissing,
     vote_average |-> JMissing]

\* {"poster_path": "/p", "release_date": "2001-05", "vote_average": 7.8}
BestFull ==
    [NoTmdbKeys EXCEPT !.poster_path = JStr(<<47, 112>>),
                       !.release_date = JStr(<<50, 48, 48, 49, 45, 48, 53>>),
                       !.vote_average = JFloat(78)]

\* {"poster_path": null, "release_date": "", "vote_average": 0}
BestBare ==
    [NoTmdbKeys EXCEPT !.poster_path = JNull,
                       !.release_date = JStr(Empty),
                       !.vote_average = JInt(0)]

\* {"vote_average": "n/a"}
BestBadVote == [NoTmdbKeys EXCEPT !.vote_average = JStr(<<110, 47, 97>>)]

\* what requests.get and raise_for_status do: raise (no network, an HTTP
\* error status, the 12 s timeout), or give a body with these results
TmdbResponses ==
    {[raised |-> TRUE, results |-> <<>>],
     [raised |-> FALSE, results |-> <<>>],
     [raised |-> FALSE, results |-> <<BestFull, BestBare>>],
     [raised |-> FALSE, results |-> <<BestBare>>],
     [raised |-> FALSE, results |-> <<BestBadVote>>]}

-----------------------------------------------------------------------------
(* TMDB lookup *)

\* "https://image.tmdb.org/t/p/w500"
PosterBase ==
    <<104, 116, 116, 112, 115, 58, 47, 47, 105, 109, 97, 103, 101, 46, 116,
      109, 100, 98, 46, 111, 114, 103, 47, 116, 47, 112, 47, 119, 53, 48, 48>>

\* "https://www.youtube.com/results?search_query="
SearchBase ==
    <<104, 116, 116, 112, 115, 58, 47, 47, 119, 119, 119, 46, 121, 111, 117,
      116, 117, 98, 101, 46, 99, 111, 109, 47, 114, 101, 115, 117, 108, 116,
      115, 63, 115, 101, 97, 114, 99, 104, 95, 113, 117, 101, 114, 121, 61>>

\* " official trailer"
OfficialTrailer ==
    <<32, 111, 102, 102, 105, 99, 105, 97, 108, 32, 116, 114, 97, 105, 108,
      101, 114>>

HexDigit(n) == IF n < 10 THEN 48 + n ELSE 55 + n

\* urllib.parse.quote_plus of an ASCII text: letters, digits and _.-~ stay,
\* a space becomes "+", any other character becomes %XX
RECURSIVE quote_plus(_)
quote_plus(s) ==
    IF s = <<>> THEN <<>>
    ELSE LET c == Head(s)
             kept == \/ IsDigit(c)
                     \/ c \in 65..90
                     \/ c \in 97..122
                     \/ c \in {95, 46, 45, 126}
         IN  (IF kept THEN <<c>>
              ELSE IF c = 32 THEN <<43>>
              ELSE <<37, HexDigit(c \div 16), HexDigit(c % 16)>>)
             \o quote_plus(Tail(s))

\* the trailer_url that apply() writes for the title of the lookup
SearchUrl(title) == SearchBase \o quote_plus(title \o OfficialTrailer)

\* the locals of a worker() that has nothing for apply()
NoBest == [year |-> Empty, rating |-> 0, poster_url |-> Empty]

\* the callback that worker() schedules for a response: its kind and the
\* locals movie_year, movie_rating and poster_url that apply() closes over
Scheduled(resp) ==
    IF resp.raised THEN [kind |-> "error", best |-> NoBest]
    ELSE IF resp.results = <<>> THEN [kind |-> "no_match", best |-> NoBest]
    ELSE LET best == resp.results[1]
             path == Get(best, "poster_path", JNull)
             poster_path == IF Truthy(path) THEN PyStr(path) ELSE Empty
             release_date == PyStr(Get(best, "release_date", JStr(Empty)))
             vote == Get(best, "vote_average", JNull)
             movie_rating == PyFloat(IF Truthy(vote) THEN vote ELSE JInt(0))
         IN  IF movie_rating.exc # "none"
             THEN [kind |-> "error", best |-> NoBest]
             ELSE [kind |-> "apply",
                   best |-> [year |-> SubSeq(release_date, 1,
                                             Min(4, Len(release_date))),
                             rating |-> movie_rating.v,
                             poster_url |-> IF poster_path # Empty
                                            THEN PosterBase \o poster_path
                                            ELSE Empty]]

\* a worker thread inside requests.get: live while the popup it was started
\* from is the one on screen, with the title that fetch_tmdb read
Worker(title) == [live |-> TRUE, title |-> title]

\* a callback in the Clock: exc_bound while the worker thread that scheduled
\* an error callback is still inside its except clause, where exc is bound
Event(w, sch) ==
    [kind |-> sch.kind, live |-> w.live,
     title |-> IF sch.kind = "apply" THEN w.title ELSE Empty,
     best |-> sch.best, exc_bound |-> sch.kind = "error"]

\* no worker thread and no scheduled callback
NoLookups == [workers |-> EmptyBag, scheduled |-> <<>>]

\* the number of lookups under way
InFlight(ls) == BagCardinality(ls.workers) + Len(ls.scheduled)

\* the lookups after popup.dismiss(): the workers and callbacks keep the
\* widgets of the popup that is no longer on screen
Dismissed(ls) ==
    LET Off(x) == [x EXCEPT !.live = FALSE]
        ws == {Off(w) : w \in BagToSet(ls.workers)}
    IN  [workers |-> [w \in ws |-> CopiesIn(w, ls.workers)
                         + CopiesIn([w EXCEPT !.live = TRUE], ls.workers)],
         scheduled |-> [i \in 1..Len(ls.scheduled) |-> Off(ls.scheduled[i])]]

-----------------------------------------------------------------------------
(* State *)

\* no popup is open
ClosedForm ==
    [open |-> FALSE, editing |-> FALSE, movie |-> 0,
     title |-> Empty, year |-> Empty, rating |-> Empty, poster_url |-> Empty,
     trailer_url |-> Empty, local_file |-> Empty, notes |-> Empty,
     watched |-> FALSE, favorite |-> FALSE, watchlist |-> FALSE,
     status |-> ""]

Ran(op, h, arg, exc) == [op |-> op, h |-> h, arg |-> arg, exc |-> exc]

\* no handler that loads, changes or saves the list ran last
Idle == Ran("none", 0, "", "none")

\* the process has not been started
InitOn(files) ==
    /\ file \in files
    /\ movies = <<>>
    /\ running = FALSE
    /\ search_input = Empty
    /\ filter_spinner = "All"
    /\ sort_spinner = "Title"
    /\ cards = <<>>
    /\ form = ClosedForm
    /\ last = Idle
    /\ tmdb_api_key \in ApiKeys
    /\ lookups = NoLookups

Init == InitOn(InitFiles)

\* the process is gone: its objects and widgets with it
Exited ==
    /\ running' = FALSE
    /\ movies' = <<>>
    /\ cards' = <<>>
    /\ form' = ClosedForm
    /\ search_input' = Empty
    /\ filter_spinner' = "All"
    /\ sort_spinner' = "Title"
    /\ lookups' = NoLookups
    /\ UNCHANGED tmdb_api_key

\* a handler that changes the list and returns without writing the file
_save_movies_unwritten(ms, formAfter, op, h, arg) ==
    /\ movies' = ms
    /\ cards' = refresh_movies(ms, search_input, filter_spinner, sort_spinner)
    /\ form' = formAfter
    /\ last' = Ran(op, h, arg, "none")
    /\ lookups' = IF formAfter.open THEN lookups ELSE Dismissed(lookups)
    /\ UNCHANGED <<file, running, search_input, filter_spinner, sort_spinner,
                   tmdb_api_key>>

\* _save_movies() and the rest of the handler for the list ms: the file is
\* rewritten, the cards are rebuilt and the form is left as formAfter; or
\* makedirs/open fails (file untouched) or the write fails (file cut short)
\* and the OSError leaves the handler and ends the process.
_save_movies(ms, formAfter, op, h, arg) ==
    \/ /\ file' = Dumped(ms)
       /\ movies' = ms
       /\ cards' = refresh_movies(ms, search_input, filter_spinner, sort_spinner)
       /\ form' = formAfter
       /\ last' = Ran(op, h, arg, "none")
       /\ lookups' = IF formAfter.open THEN lookups ELSE Dismissed(lookups)
       /\ UNCHANGED <<running, search_input, filter_spinner, sort_spinner,
                      tmdb_api_key>>
    \/ /\ file' \in {file, InvalidFile}
       /\ Exited
       /\ last' = Ran(op, h, arg, "OSError")

\* the values datetime.utcnow() can return: the wall clock, which two calls
\* can read as the same value and which can be set back between two calls
utcnow == 0..MaxClock

-----------------------------------------------------------------------------
(* Operations *)

\* MovieManagerApp().run(): build(), with the refresh it schedules
build ==
    /\ ~running
    /\ \E t \in utcnow :
         LET loaded == _load_movies(file, t)
         IN  /\ movies' = loaded.movies
             /\ cards' = refresh_movies(loaded.movies, Empty, "All", "Title")
             /\ last' = Ran("build", 0, "", loaded.exc)
    /\ running' = TRUE
    /\ search_input' = Empty
    /\ filter_spinner' = "All"
    /\ sort_spinner' = "Title"
    /\ form' = ClosedForm
    /\ lookups' = NoLookups
    /\ UNCHANGED <<file, tmdb_api_key>>

\* the user closes the application
stop ==
    /\ running
    /\ Exited
    /\ last' = Idle
    /\ UNCHANGED file

\* the flags after setattr(movie, field, not getattr(movie, field)) and the
\* watched rule
Toggled(m, field) ==
    LET flipped == IF field = "watched" THEN [m EXCEPT !.watched = ~m.watched]
                   ELSE [m EXCEPT !.favorite = ~m.favorite]
    IN  IF field = "watched" /\ flipped.watched
        THEN [flipped EXCEPT !.watchlist = FALSE] ELSE flipped

\* toggle_flag(movie, field) from the Watched or Favorite button of a card
toggle_flag(h, field) ==
    /\ running /\ ~form.open
    /\ \E c \in 1..Len(cards) : cards[c] = h
    /\ LET i == IndexOf(movies, h)
       IN  _save_movies([movies EXCEPT ![i] = Toggled(movies[i], field)],
                        form, "toggle_flag", h, field)

\* delete_movie(movie) from the Delete button of a card
delete_movie(h) ==
    /\ running /\ ~form.open
    /\ \E c \in 1..Len(cards) : cards[c] = h
    /\ IF InList(movies, Obj(movies, h))
       THEN _save_movies(ListRemove(movies, Obj(movies, h)), form,
                         "delete_movie", h, "")
       ELSE /\ last' = Ran("delete_movie", h, "", "none")
            /\ UNCHANGED <<movies, file, running, search_input,
                           filter_spinner, sort_spinner, cards, form,
                           tmdb_api_key, lookups>>

\* the widgets of the popup for the record model
Prefilled(editing, model) ==
    [open |-> TRUE, editing |-> editing,
     movie |-> IF editing THEN model.id ELSE 0,
     title |-> model.title, year |-> model.year,
     rating |-> IF model.rating # 0 THEN FormatFloat(model.rating) ELSE Empty,
     poster_url |-> model.poster_url, trailer_url |-> model.trailer_url,
     local_file |-> model.local_file, notes |-> model.notes,
     watched |-> model.watched, favorite |-> model.favorite,
     watchlist |-> model.watchlist, status |-> ""]

\* open_movie_form(movie) from the Edit button of a card (h), or
\* open_movie_form() from Add Movie (h = 0)
open_movie_form(h) ==
    /\ running /\ ~form.open
    /\ IF h = 0 THEN Len(movies) < MaxMovies
       ELSE \E c \in 1..Len(cards) : cards[c] = h
    /\ form' = IF h = 0 THEN Prefilled(FALSE, Movie(0, Empty, 0))
               ELSE Prefilled(TRUE, Obj(movies, h))
    /\ last' = Idle
    /\ UNCHANGED <<movies, file, running, search_input, filter_spinner,
                   sort_spinner, cards, tmdb_api_key, lookups>>

\* the user types into the text inputs and sets the check boxes
edit_fields(d) ==
    /\ running /\ form.open
    /\ form' = [form EXCEPT !.title = d.title, !.year = d.year,
                            !.rating = d.rating, !.notes = d.notes,
                            !.watched = d.watched, !.favorite = d.favorite,
                            !.watchlist = d.watchlist]
    /\ form' # form
    /\ last' = Idle
    /\ UNCHANGED <<movies, file, running, search_input, filter_spinner,
                   sort_spinner, cards, tmdb_api_key, lookups>>

\* clear() from the Clear button
clear ==
    /\ running /\ form.open
    /\ form' = [form EXCEPT !.title = Empty, !.year = Empty,
                            !.rating = Empty, !.poster_url = Empty,
                            !.trailer_url = Empty, !.local_file = Empty,
                            !.notes = Empty, !.watched = FALSE,
                            !.favorite = FALSE, !.watchlist = TRUE,
                            !.status = ""]
    /\ last' = Idle
    /\ UNCHANGED <<movies, file, running, search_input, filter_spinner,
                   sort_spinner, cards, tmdb_api_key, lookups>>

\* popup.dismiss() from the Cancel button
cancel ==
    /\ running /\ form.open
    /\ form' = ClosedForm
    /\ last' = Idle
    /\ lookups' = Dismissed(lookups)
    /\ UNCHANGED <<movies, file, running, search_input, filter_spinner,
                   sort_spinner, cards, tmdb_api_key>>

\* max(0.0, min(10.0, rating))
Clamp(rating) == Max(0, Min(100, rating))

\* the rating that save() reads from the form: float(text.strip() or 0),
\* 0.0 on ValueError
FormRating(text) ==
    IF Strip(text) = Empty THEN 0
    ELSE IF ParseFloat(Strip(text)).ok THEN ParseFloat(Strip(text)).v
    ELSE 0

\* save() with the notes taken from the widget as they are
AssignedUntrimmed(target, f) ==
    [target EXCEPT !.title = Strip(f.title),
                   !.year = Strip(f.year),
                   !.rating = Clamp(FormRating(f.rating)),
                   !.poster_url = Strip(f.poster_url),
                   !.trailer_url = Strip(f.trailer_url),
                   !.local_file = Strip(f.local_file),
                   !.notes = f.notes,
                   !.watched = f.watched,
                   !.favorite = f.favorite,
                   !.watchlist = f.watchlist]

\* the assignments of save() to target
Assigned(target, f) ==
    [target EXCEPT !.title = Strip(f.title),
                   !.year = Strip(f.year),
                   !.rating = Clamp(FormRating(f.rating)),
                   !.poster_url = Strip(f.poster_url),
                   !.trailer_url = Strip(f.trailer_url),
                   !.local_file = Strip(f.local_file),
                   !.notes = Strip(f.notes),
                   !.watched = f.watched,
                   !.favorite = f.favorite,
                   !.watchlist = f.watchlist]

\* save() from the Save button of the popup
save ==
    /\ running /\ form.open
    /\ IF Strip(form.title) = Empty
       THEN /\ form' = [form EXCEPT !.status = "Title is required."]
            /\ last' = Idle
            /\ UNCHANGED <<movies, file, running, search_input,
                           filter_spinner, sort_spinner, cards,
                           tmdb_api_key, lookups>>
       ELSE IF form.editing
       THEN LET i == IndexOf(movies, form.movie)
            IN  _save_movies([movies EXCEPT ![i] = Assigned(movies[i], form)],
                             ClosedForm, "save", form.movie, "update")
       ELSE \E t \in utcnow :
              LET target == Movie(FreshId(movies), Strip(form.title), t)
              IN  _save_movies(Append(movies, Assigned(target, form)),
                               ClosedForm, "save", target.id, "create")

\* on_text of search_input: refresh_movies()
set_search(text) ==
    /\ running /\ ~form.open
    /\ text # search_input
    /\ search_input' = text
    /\ cards' = refresh_movies(movies, text, filter_spinner, sort_spinner)
    /\ last' = Ran("refresh_movies", 0, "search", "none")
    /\ UNCHANGED <<movies, file, running, filter_spinner, sort_spinner, form,
                   tmdb_api_key, lookups>>

\* on_text of filter_spinner: refresh_movies()
set_filter(value) ==
    /\ running /\ ~form.open
    /\ value # filter_spinner
    /\ filter_spinner' = value
    /\ cards' = refresh_movies(movies, search_input, value, sort_spinner)
    /\ last' = Ran("refresh_movies", 0, "filter", "none")
    /\ UNCHANGED <<movies, file, running, search_input, sort_spinner, form,
                   tmdb_api_key, lookups>>

\* on_text of sort_spinner: refresh_movies()
set_sort(value) ==
    /\ running /\ ~form.open
    /\ value # sort_spinner
    /\ sort_spinner' = value
    /\ cards' = refresh_movies(movies, search_input, filter_spinner, value)
    /\ last' = Ran("refresh_movies", 0, "sort", "none")
    /\ UNCHANGED <<movies, file, running, search_input, filter_spinner, form,
                   tmdb_api_key, lookups>>

\* f"TMDB error: {exc}": the text of the exception is not modelled
TmdbError == "TMDB error: ..."

\* fetch_tmdb() from the Fetch TMDB button: the lookup is started with the
\* title read now; the year only narrows the request
fetch_tmdb ==
    /\ running /\ form.open
    /\ LET title == Strip(form.title)
       IN  IF title = Empty
           THEN /\ form' = [form EXCEPT !.status = "Enter a title first."]
                /\ UNCHANGED lookups
           ELSE IF tmdb_api_key = Empty
           THEN /\ form' = [form EXCEPT !.status = "Set TMDB API key first."]
                /\ UNCHANGED lookups
           ELSE /\ InFlight(lookups) < MaxLookups
                /\ form' = [form EXCEPT !.status = "Fetching from TMDB..."]
                /\ lookups' = [lookups EXCEPT
                                 !.workers = @ (+) SetToBag({Worker(title)})]
    /\ last' = Idle
    /\ UNCHANGED <<movies, file, running, search_input, filter_spinner,
                   sort_spinner, cards, tmdb_api_key>>

\* a worker() that sets the status label itself, on its own thread, instead
\* of scheduling a callback
worker_unscheduled(w, resp) ==
    /\ BagIn(w, lookups.workers)
    /\ lookups' = [lookups EXCEPT !.workers = @ (-) SetToBag({w})]
    /\ form' = IF w.live
               THEN [form EXCEPT !.status =
                       IF Scheduled(resp).kind = "apply"
                       THEN "TMDB data fetched." ELSE "No TMDB match found."]
               ELSE form
    /\ UNCHANGED <<movies, file, running, search_input, filter_spinner,
                   sort_spinner, cards, last, tmdb_api_key>>

\* worker() on its thread, from the response to Clock.schedule_once: the
\* thread ends, or stays in the except clause after scheduling the error
\* callback
worker(w, resp) ==
    /\ BagIn(w, lookups.workers)
    /\ lookups' = [workers |-> lookups.workers (-) SetToBag({w}),
                   scheduled |-> Append(lookups.scheduled,
                                        Event(w, Scheduled(resp)))]
    /\ UNCHANGED <<movies, file, running, search_input, filter_spinner,
                   sort_spinner, cards, form, last, tmdb_api_key>>

\* the worker thread leaves the except clause: exc is unbound, also for the
\* lambda that closes over it
worker_leaves_except(i) ==
    /\ i \in 1..Len(lookups.scheduled)
    /\ lookups.scheduled[i].exc_bound
    /\ lookups' = [lookups EXCEPT !.scheduled[i].exc_bound = FALSE]
    /\ UNCHANGED <<movies, file, running, search_input, filter_spinner,
                   sort_spinner, cards, form, last, tmdb_api_key>>

\* the Clock runs the callback scheduled first:
\* setattr(status, "text", "No TMDB match found.")
no_match_callback ==
    /\ running /\ lookups.scheduled # <<>>
    /\ LET e == Head(lookups.scheduled)
       IN  /\ e.kind = "no_match"
           /\ form' = IF e.live
                      THEN [form EXCEPT !.status = "No TMDB match found."]
                      ELSE form
    /\ lookups' = [lookups EXCEPT !.scheduled = Tail(@)]
    /\ last' = Idle
    /\ UNCHANGED <<movies, file, running, search_input, filter_spinner,
                   sort_spinner, cards, tmdb_api_key>>

\* the Clock runs the callback scheduled first: apply()
apply ==
    /\ running /\ lookups.scheduled # <<>>
    /\ LET e == Head(lookups.scheduled)
       IN  /\ e.kind = "apply"
           /\ form' =
                IF ~e.live THEN form
                ELSE [form EXCEPT
                        !.year = IF e.best.year # Empty
                                 THEN e.best.year ELSE @,
                        !.rating = IF e.best.rating # 0
                                   THEN FormatFloat(e.best.rating) ELSE @,
                        !.poster_url = IF e.best.poster_url # Empty
                                       THEN e.best.poster_url ELSE @,
                        !.trailer_url = IF Strip(@) = Empty
                                        THEN SearchUrl(e.title) ELSE @,
                        !.status = "TMDB data fetched."]
    /\ lookups' = [lookups EXCEPT !.scheduled = Tail(@)]
    /\ last' = Idle
    /\ UNCHANGED <<movies, file, running, search_input, filter_spinner,
                   sort_spinner, cards, tmdb_api_key>>

\* the Clock runs the callback scheduled first:
\* setattr(status, "text", f"TMDB error: {exc}"), which reads exc when it
\* runs; with exc unbound the NameError leaves the callback and ends the
\* process
error_callback ==
    /\ running /\ lookups.scheduled # <<>>
    /\ LET e == Head(lookups.scheduled)
       IN  /\ e.kind = "error"
           /\ IF e.exc_bound
              THEN /\ form' = IF e.live
                              THEN [form EXCEPT !.status = TmdbError]
                              ELSE form
                   /\ lookups' = [lookups EXCEPT !.scheduled = Tail(@)]
                   /\ last' = Idle
                   /\ UNCHANGED <<movies, running, search_input,
                                  filter_spinner, sort_spinner, cards,
                                  tmdb_api_key>>
              ELSE /\ Exited
                   /\ last' = Ran("fetch_tmdb", 0, "error", "NameError")
    /\ UNCHANGED file

Next ==
    \/ build
    \/ stop
    \/ \E h \in Ids(movies), field \in {"watched", "favorite"} :
          toggle_flag(h, field)
    \/ \E h \in Ids(movies) : delete_movie(h)
    \/ \E h \in Ids(movies) \cup {0} : open_movie_form(h)
    \/ \E d \in Drafts : edit_fields(d)
    \/ clear
    \/ cancel
    \/ save

Spec == Init /\ [][Next]_vars

\* load on its own: the application is started on each of LoadFiles
InitLoad == InitOn(LoadFiles)

NextLoad ==
    \/ build
    \/ stop

SpecLoad == InitLoad /\ [][NextLoad]_vars

\* the query on its own: the application is started on each of QueryFiles
\* and the user works the search box and the two spinners
InitQuery == InitOn(QueryFiles)

NextQuery ==
    \/ build
    \/ \E text \in SearchTexts : set_search(text)
    \/ \E value \in {"All", "Watched", "Favorite", "Watchlist"} :
          set_filter(value)
    \/ \E value \in {"Title", "Year", "Rating"} : set_sort(value)

SpecQuery == InitQuery /\ [][NextQuery]_vars

\* the lookups on their own: the application is started on a catalogue of
\* one record, the user edits it in the form, and the worker threads and
\* Clock callbacks of fetch_tmdb run between the handlers
InitLookup == InitOn({ListFile(<<ElemA>>)})

NextLookup ==
    \/ build
    \/ \E h \in Ids(movies) : toggle_flag(h, "watched")
    \/ \E h \in Ids(movies) : delete_movie(h)
    \/ \E h \in Ids(movies) : open_movie_form(h)
    \/ \E d \in LookupDrafts : edit_fields(d)
    \/ cancel
    \/ save
    \/ fetch_tmdb
    \/ \E w \in BagToSet(lookups.workers), resp \in TmdbResponses :
          worker(w, resp)
    \/ \E i \in 1..Len(lookups.scheduled) : worker_leaves_except(i)
    \/ no_match_callback
    \/ apply
    \/ error_callback

SpecLookup == InitLookup /\ [][NextLookup]_vars

-----------------------------------------------------------------------------
(* Properties *)

\* the handlers that change the list and then call _save_movies
Mutating == {"toggle_flag", "delete_movie", "save"}

\* the state right after the handler op returned without raising
Completed(op) == running /\ last.op = op /\ last.exc = "none"

\* the file f is a list that holds the records ms: as many elements, each a
\* dict with the eleven keys, with the values of the record at its position
FileHolds(f, ms) ==
    /\ f.kind = "list"
    /\ Len(f.items) = Len(ms)
    /\ \A i \in 1..Len(ms) :
          /\ f.items[i].dict
          /\ f.items[i].title = JStr(ms[i].title)
          /\ f.items[i].year = JStr(ms[i].year)
          /\ f.items[i].rating = JFloat(ms[i].rating)
          /\ f.items[i].poster_url = JStr(ms[i].poster_url)
          /\ f.items[i].watched = JBool(ms[i].watched)
          /\ f.items[i].favorite = JBool(ms[i].favorite)
          /\ f.items[i].watchlist = JBool(ms[i].watchlist)
          /\ f.items[i].trailer_url = JStr(ms[i].trailer_url)
          /\ f.items[i].local_file = JStr(ms[i].local_file)
          /\ f.items[i].notes = JStr(ms[i].notes)
          /\ f.items[i].created_at = JStr(ms[i].created_at)

\* C1: a record that toggle_flag(record, "watched") or an update has just
\* given watched = true has watchlist = false when the handler has returned.
C1_WatchedClearsWatchlist ==
    /\ running /\ last.exc = "none"
    /\ \/ last.op = "toggle_flag" /\ last.arg = "watched"
       \/ last.op = "save" /\ last.arg = "update"
    /\ last.h \in Ids(movies)
    /\ Obj(movies, last.h).watched
    => ~Obj(movies, last.h).watchlist

\* C2: when create, update, delete or a flag toggle has returned, the movies
\* file holds exactly the list in memory: the same records, the same field
\* values, the same order.
C2_FileHoldsMemory ==
    \A op \in Mutating : Completed(op) => FileHolds(file, movies)

\* C2 witness: an update of the second of two records has returned
C2_Witness ==
    /\ Completed("save") /\ last.arg = "update"
    /\ Len(movies) = 2 /\ movies[2].id = last.h
    /\ movies[2].title = <<66>> /\ movies[1].title = <<97>>

\* C3: the rating of every record is in [0.0, 10.0] after from_dict, and in
\* every record that a save has written, loaded records included.
C3_RatingInRange ==
    /\ running => \A i \in 1..Len(movies) : movies[i].rating \in 0..100
    /\ \A op \in Mutating :
          Completed(op) /\ file.kind = "list" =>
              \A i \in 1..Len(file.items) :
                  /\ file.items[i].rating.t = "float"
                  /\ file.items[i].rating.n \in 0..100

\* C4: every record written to the movies file has a title that is not
\* empty after trimming.
C4_WrittenTitleNotBlank ==
    \A op \in Mutating :
        Completed(op) /\ file.kind = "list" =>
            \A i \in 1..Len(file.items) :
                Strip(PyStr(file.items[i].title)) # Empty

\* C7: save followed at once by load gives back the list: as many records,
\* every field of every record the same, created_at included, in the same
\* order, whatever the clock shows at the load.
C7_RoundTrip ==
    running =>
        \A t \in utcnow :
            LET again == _load_movies(Dumped(movies), t)
            IN  /\ again.exc = "none"
                /\ Len(again.movies) = Len(movies)
                /\ \A i \in 1..Len(movies) :
                      FieldsOf(again.movies[i]) = FieldsOf(movies[i])

\* C7 witness: a list of two records of which one was typed into the form
\* with text to trim and a rating to clamp
C7_Witness ==
    /\ running /\ Len(movies) = 2
    /\ \E i \in 1..2 :
          /\ movies[i].title = <<66>> /\ movies[i].notes = <<120>>
          /\ movies[i].rating = 100

\* C8: delete removes the record it is given and no other: the list
\* afterwards is the list before without that record, the rest in their
\* order, also when another record has the same field values; a record that
\* is not in the list leaves the list as it is.
C8_DeleteByIdentity ==
    [][last'.op = "delete_movie" /\ last'.exc = "none" =>
          IF last'.h \in Ids(movies)
          THEN movies' = RemoveAt(movies, IndexOf(movies, last'.h))
          ELSE movies' = movies]_vars

\* the created_at that a load of the file f at time t gives its i-th dict
ReloadedCreatedAt(f, t, i) == _load_movies(f, t).movies[i].created_at

\* the i-th dict of the file f carries a created_at that is not blank
HasCreatedAt(f, i) == TextField(Dicts(f.items)[i], "created_at") # Empty

\* no handler of the running process changes the created_at of a record
CreatedAtKeptInProcess ==
    running /\ running' =>
        \A h \in Ids(movies) \cap Ids(movies') :
            Obj(movies', h).created_at = Obj(movies, h).created_at

\* C9 as claimed: created_at, once assigned, is never changed: not by
\* update, toggle_flag or save, and not by a later load of the same
\* persisted data, also for elements that had no created_at key.
C9_CreatedAtNeverChanges ==
    [][/\ CreatedAtKeptInProcess
       /\ last'.op = "build" =>
             \A t \in utcnow : \A i \in 1..Len(movies') :
                 ReloadedCreatedAt(file', t, i) = movies'[i].created_at]_vars

\* C9 amended: update, toggle_flag and save leave created_at as it is, and
\* a later load of the same persisted data gives every record whose element
\* carries a created_at that is not blank (as every element written by save
\* does) the same created_at again.
C9_CreatedAtKept ==
    [][/\ CreatedAtKeptInProcess
       /\ last'.op = "build" =>
             \A t \in utcnow : \A i \in 1..Len(movies') :
                 HasCreatedAt(file', i) =>
                     ReloadedCreatedAt(file', t, i) = movies'[i].created_at]_vars

\* C9 witness: a record stamped at time 1 was saved and the file loaded again
C9_Witness ==
    /\ Completed("build") /\ Len(movies) >= 1
    /\ file.kind = "list" /\ file.items[1].dict
    /\ file.items[1].created_at = JStr(<<84, 49>>)
    /\ movies[1].created_at = <<84, 49>>

\* the dicts of the file f from which from_dict makes a record
RECURSIVE Recoverable(_)
Recoverable(items) ==
    IF items = <<>> THEN <<>>
    ELSE IF Head(items).dict /\ from_dict(Head(items), 0, 0).exc = "none"
    THEN <<Head(items)>> \o Recoverable(Tail(items))
    ELSE Recoverable(Tail(items))

\* C5: load does not raise; no file, unparsable content and a top level
\* that is not a list give the empty list; of a list, the elements that are
\* not dicts are dropped and every dict is kept, in file order, as the
\* record from_dict makes of it, so that one bad element does not lose the
\* elements that can be recovered.
C5_LoadKeepsEveryDict ==
    running /\ last.op = "build" =>
        /\ file.kind # "list" => movies = <<>>
        /\ file.kind = "list" =>
              LET ds == Recoverable(file.items)
              IN  /\ Len(movies) = Len(ds)
                  /\ \A i \in 1..Len(movies) :
                        \E t \in utcnow :
                            FieldsOf(movies[i]) = FieldsOf(from_dict(ds[i], i, t).m)

\* C6: from_dict raises for no dict: a missing key takes its default
\* (watchlist true, watched and favorite false, rating 0, texts empty) and a
\* malformed value, such as a rating that is no number, gives the default.
C6_FromDictNeverRaises ==
    last.op = "build" /\ file.kind = "list" =>
        \A i \in 1..Len(file.items) :
            LET e == file.items[i]
                r == from_dict(e, i, 0)
            IN  e.dict =>
                    /\ r.exc = "none"
                    /\ e.rating.t = "missing" => r.m.rating = 0
                    /\ e.rating.t = "str" /\ ~ParseFloat(e.rating.s).ok
                          => r.m.rating = 0
                    /\ e.watchlist.t = "missing" => r.m.watchlist
                    /\ e.watched.t = "missing" => ~r.m.watched
                    /\ e.favorite.t = "missing" => ~r.m.favorite
                    /\ e.title.t = "missing" => r.m.title = Empty

\* the positions in movies of the records that the query keeps for the
\* search text s
Kept(s) ==
    {i \in 1..Len(movies) :
        /\ \/ Contains(Lower(s), Lower(movies[i].title))
           \/ Contains(Lower(s), Lower(movies[i].notes))
        /\ \/ filter_spinner = "All"
           \/ filter_spinner = "Watched" /\ movies[i].watched
           \/ filter_spinner = "Favorite" /\ movies[i].favorite
           \/ filter_spinner = "Watchlist" /\ movies[i].watchlist}

\* the record at position i may stand before the one at position j in the
\* order of sort_spinner: its key is not behind, and on a tie i is first
InOrder(i, j) ==
    LET a  == movies[i]
        b  == movies[j]
        ya == IF a.year = Empty THEN <<48>> ELSE a.year
        yb == IF b.year = Empty THEN <<48>> ELSE b.year
    IN  CASE sort_spinner = "Title" ->
                \/ TextLess(Lower(a.title), Lower(b.title))
                \/ Lower(a.title) = Lower(b.title) /\ i < j
          [] sort_spinner = "Year" ->
                \/ TextLess(yb, ya)
                \/ ya = yb /\ i < j
          [] sort_spinner = "Rating" ->
                \/ a.rating > b.rating
                \/ a.rating = b.rating /\ i < j
          [] OTHER -> FALSE

\* the cards show the records at the positions K, each once, in the order
\* of sort_spinner
CardsShow(K) ==
    /\ Len(cards) = Cardinality(K)
    /\ \A c \in 1..Len(cards) :
          cards[c] \in Ids(movies) /\ IndexOf(movies, cards[c]) \in K
    /\ \A c \in 1..Len(cards), d \in 1..Len(cards) :
          c < d => InOrder(IndexOf(movies, cards[c]), IndexOf(movies, cards[d]))

\* a step of the query leaves the list and the file as they are
QueryIsReadOnly ==
    last'.op = "refresh_movies" => movies' = movies /\ file' = file

\* C10 as claimed: the query returns exactly the records whose title or
\* notes contain searchText, case-insensitively, and whose flag named by
\* the filter is true, in the order of the sort mode, ties in their original
\* order, and changes neither the list nor its order.
C10_QueryBySearchText ==
    [][/\ QueryIsReadOnly
       /\ running' => CardsShow(Kept(search_input))']_vars

\* C10 amended: the same with searchText trimmed of surrounding whitespace
\* first (a searchText that is empty after trimming matches every record).
C10_QueryByTrimmedText ==
    [][/\ QueryIsReadOnly
       /\ running' => CardsShow(Kept(Strip(search_input)))']_vars

\* C10 witness: a search text in capitals with a trailing blank has found
\* three of four records, one by its notes, two of them tied in the order
C10_Witness ==
    /\ Completed("refresh_movies")
    /\ search_input = <<65, 32>> /\ sort_spinner = "Year"
    /\ filter_spinner = "All"
    /\ Len(cards) = 3 /\ Len(movies) = 4
    /\ Obj(movies, cards[1]).year = Obj(movies, cards[2]).year
    /\ Obj(movies, cards[1]).title = <<97>>

\* the Clock runs the first scheduled callback, which is one of kinds: it
\* returns and leaves the queue, or it raises and the process ends
CallbackRuns(kinds) ==
    /\ running /\ lookups.scheduled # <<>>
    /\ Head(lookups.scheduled).kind \in kinds
    /\ \/ running' /\ lookups'.scheduled = Tail(lookups.scheduled)
       \/ ~running' /\ last'.exc = "NameError"

\* the status texts of a lookup that failed or found nothing
FailureStatus == {"No TMDB match found.", TmdbError}

\* C11: when the result of a lookup that failed (network error, HTTP error,
\* timeout) or found no match is delivered, the application keeps running,
\* the form that started it shows one of the failure texts (never "TMDB
\* data fetched."), and nothing else changes: year, rating, poster_url, trailer_url and every other
\* field of the draft keep the values they had before the delivery.
C11_FailureOnlySetsStatus ==
    [][CallbackRuns({"no_match", "error"}) =>
          /\ running'
          /\ form' = [form EXCEPT !.status = form'.status]
          /\ IF Head(lookups.scheduled).live
             THEN form'.status \in FailureStatus
             ELSE form' = form
          /\ UNCHANGED <<movies, file, cards>>]_vars

\* the number of error callbacks whose worker is inside its except clause
InExcept(ls) ==
    Cardinality({i \in 1..Len(ls.scheduled) : ls.scheduled[i].exc_bound})

\* a step of a worker thread: a thread finishes its request, or leaves its
\* except clause
WorkerStep ==
    /\ running'
    /\ \/ BagCardinality(lookups'.workers) < BagCardinality(lookups.workers)
       \/ /\ Len(lookups'.scheduled) = Len(lookups.scheduled)
          /\ InExcept(lookups') < InExcept(lookups)

\* a step of a lookup: its start, a step of its worker, or its callback
LookupStep ==
    \/ InFlight(lookups') > InFlight(lookups)
    \/ WorkerStep
    \/ CallbackRuns({"no_match", "apply", "error"})

\* C12: in every interleaving of lookups with the handlers, a step of a
\* worker thread changes nothing but the set of lookups under way (no
\* widget of the form, no record, not the file); no step of a lookup, the
\* callbacks on the interactive thread included, changes the file or the
\* list; and whenever the file or the list changes, the step is the form's
\* save, toggle_flag or delete_movie.  The list is the list of the process:
\* a step that ends the process (movies is <<>> where there is no process)
\* assigns nothing to it, and build() starts the next process from the file.
C12_LookupsLeaveStoreAlone ==
    [][/\ WorkerStep =>
            UNCHANGED <<movies, file, cards, form, running, last,
                        search_input, filter_spinner, sort_spinner,
                        tmdb_api_key>>
       /\ LookupStep =>
            /\ file' = file
            /\ running' => movies' = movies /\ cards' = cards
       /\ (file' # file \/ (running /\ running' /\ movies' # movies)) =>
            /\ last'.op \in {"save", "toggle_flag", "delete_movie"}
            /\ ~LookupStep]_vars

\* C12 witness: the form was saved with two lookups under way; the result
\* of one has arrived since and waits in the Clock for the popup that is no
\* longer on screen, the worker of the other is still running
C12_Witness ==
    /\ Completed("save")
    /\ BagCardinality(lookups.workers) = 1
    /\ Len(lookups.scheduled) = 1
    /\ lookups.scheduled[1].kind = "apply" /\ ~lookups.scheduled[1].live
    /\ \A w \in BagToSet(lookups.workers) : ~w.live

====
